---- MODULE Spec2Model ----
(***************************************************************************)
(* The ELECTRA models of src/transformers/modeling_tf_electra.py as a      *)
(* state machine: one model instance (a TFElectraModel, a                  *)
(* TFElectraForMaskedLM or a TFElectraForPreTraining), its lazily created  *)
(* weights, and a caller that invokes it and drops the result.             *)
(*                                                                         *)
(* Python values are records [kind, shape, data, tags]:                    *)
(*   kind  "None" | "tensor" | "sym" | "list" | "absent" | "unbound"       *)
(*   shape the tensor's shape (shape_list), or <<length>> of a list        *)
(*   data  the entries, row-major, of a tensor whose entries are known     *)
(*   tags  for a "sym" tensor (entries depend on weights) the layers that  *)
(*         produced it, in order; for a list of None its entries           *)
(***************************************************************************)
EXTENDS Integers, Sequences, FiniteSets

VARIABLES
    config,     \* the ElectraConfig of the instance (read-only after Init)
    klass,      \* the class of the instance
    weights,    \* names of the weights created so far (lazy build)
    pc,         \* the caller: "idle" | "called" | "returned"
    args,       \* the arguments of the call in progress / just finished
    norm,       \* the locals of TFElectraModel.call after lines 162-179
    frame,      \* the locals of TFElectraModel.call when it returned or raised
    raised,     \* the exception the call ended in ([type |-> "", ...] if none)
    invoked,    \* the sub-layers invoked during the call, in order
    ret         \* the value returned (its elements), <<>> when it raised

vars == <<config, klass, weights, pc, args, norm, frame, raised, invoked, ret>>

----------------------------------------------------------------------------
(* Bounds of the model *)

MaxBatch  == 2      \* batch sizes 1..MaxBatch
MaxSeq    == 2      \* sequence lengths 1..MaxSeq
MaxWidth  == 2      \* embedding_size, hidden_size in 1..MaxWidth
MaxLayers == 2      \* num_hidden_layers in 1..MaxLayers
MaxExtra  == 1      \* entries beyond the six canonical ones
VocabSize == 3      \* config.vocab_size

(* Program constants *)

NumFields   == 6        \* assert len(inputs) <= 6
MaskedValue == -10000   \* (1.0 - mask) * -10000.0

----------------------------------------------------------------------------
(* Python values *)

None    == [kind |-> "None",    shape |-> <<>>, data |-> <<>>, tags |-> <<>>]
Absent  == [kind |-> "absent",  shape |-> <<>>, data |-> <<>>, tags |-> <<>>]
Unbound == [kind |-> "unbound", shape |-> <<>>, data |-> <<>>, tags |-> <<>>]

RECURSIVE Prod(_)
Prod(s) == IF s = <<>> THEN 1 ELSE Head(s) * Prod(Tail(s))

Tensor(sh, d) == [kind |-> "tensor", shape |-> sh, data |-> d, tags |-> <<>>]
Sym(sh, by)   == [kind |-> "sym",    shape |-> sh, data |-> <<>>, tags |-> by]
PyList(d)     == [kind |-> "list",   shape |-> <<Len(d)>>, data |-> d, tags |-> <<>>]

IsNone(v) == v.kind = "None"

\* tf.fill(dims, value)
Fill(sh, v) == Tensor(sh, [i \in 1..Prod(sh) |-> v])

\* shape_list(x)
shape_list(x) == PyList(x.shape)

\* x[:-1] on a Python list
ButLast(l) == PyList(SubSeq(l.data, 1, Len(l.data) - 1))

NoError == [type |-> "", msg |-> "", line |-> 0]
Error(t, m, l) == [type |-> t, msg |-> m, line |-> l]

----------------------------------------------------------------------------
(* The arguments of TFElectraModel.call (lines 152-161): `inputs` in one of   *)
(* three forms and five keyword arguments, each None by default.              *)
(* A mapping is a sequence over KeyNames, Absent where the key is missing.    *)

KeyNames == <<"input_ids", "attention_mask", "token_type_ids", "position_ids",
              "head_mask", "inputs_embeds">>

NumKeys == NumFields + MaxExtra

NoMap == [i \in 1..NumKeys |-> Absent]

SeqInputs(s)  == [form |-> "seq",  seq |-> s,    map |-> NoMap, bare |-> None]
MapInputs(m)  == [form |-> "map",  seq |-> <<>>, map |-> m,     bare |-> None]
BareInputs(v) == [form |-> "bare", seq |-> <<>>, map |-> NoMap, bare |-> v]

NoKw == [attention_mask |-> None, token_type_ids |-> None, position_ids |-> None,
         head_mask |-> None, inputs_embeds |-> None]

\* len(inputs) of a dict
MapLen(m) == Cardinality({i \in 1..NumKeys : m[i].kind # "absent"})

\* inputs.get(key, default), the key given by its index in KeyNames
MapGet(m, i, default) == IF m[i].kind # "absent" THEN m[i] ELSE default

\* The locals of call on entry: the keyword arguments bound, the rest unbound.
EntryFrame(kw) ==
    [input_ids |-> Unbound,
     attention_mask |-> kw.attention_mask,
     token_type_ids |-> kw.token_type_ids,
     position_ids |-> kw.position_ids,
     head_mask |-> kw.head_mask,
     inputs_embeds |-> kw.inputs_embeds,
     input_shape |-> Unbound,
     extended_attention_mask |-> Unbound,
     hidden_states |-> Unbound]

\* NormalizeSeq with `inputs[i] or keyword`: an element that is None gives way
\* to the keyword argument
NormalizeSeqOrKeyword(s, kw) ==
    LET pick(i, k) == IF Len(s) >= i /\ ~IsNone(s[i]) THEN s[i] ELSE k
    IN  IF Len(s) = 0
        THEN [f |-> EntryFrame(kw),
              err |-> Error("IndexError", "index out of range", 163)]
        ELSE [f |-> [EntryFrame(kw) EXCEPT
                       !.input_ids      = s[1],
                       !.attention_mask = pick(2, kw.attention_mask),
                       !.token_type_ids = pick(3, kw.token_type_ids),
                       !.position_ids   = pick(4, kw.position_ids),
                       !.head_mask      = pick(5, kw.head_mask),
                       !.inputs_embeds  = pick(6, kw.inputs_embeds)],
              err |-> IF Len(s) <= NumFields THEN NoError
                      ELSE Error("AssertionError", "Too many inputs.", 169)]

\* lines 163-169: isinstance(inputs, (tuple, list))
NormalizeSeq(s, kw) ==
    IF Len(s) = 0
    THEN [f |-> EntryFrame(kw),
          err |-> Error("IndexError", "index out of range", 163)]
    ELSE [f |-> [EntryFrame(kw) EXCEPT
                   !.input_ids      = s[1],
                   !.attention_mask = IF Len(s) > 1 THEN s[2] ELSE kw.attention_mask,
                   !.token_type_ids = IF Len(s) > 2 THEN s[3] ELSE kw.token_type_ids,
                   !.position_ids   = IF Len(s) > 3 THEN s[4] ELSE kw.position_ids,
                   !.head_mask      = IF Len(s) > 4 THEN s[5] ELSE kw.head_mask,
                   !.inputs_embeds  = IF Len(s) > 5 THEN s[6] ELSE kw.inputs_embeds],
          err |-> IF Len(s) <= NumFields THEN NoError
                  ELSE Error("AssertionError", "Too many inputs.", 169)]

\* lines 171-177: isinstance(inputs, dict)
NormalizeMap(m, kw) ==
    [f |-> [EntryFrame(kw) EXCEPT
              !.input_ids      = MapGet(m, 1, None),
              !.attention_mask = MapGet(m, 2, kw.attention_mask),
              !.token_type_ids = MapGet(m, 3, kw.token_type_ids),
              !.position_ids   = MapGet(m, 4, kw.position_ids),
              !.head_mask      = MapGet(m, 5, kw.head_mask),
              !.inputs_embeds  = MapGet(m, 6, kw.inputs_embeds)],
     err |-> IF MapLen(m) <= NumFields THEN NoError
             ELSE Error("AssertionError", "Too many inputs.", 177)]

\* line 179: anything else is the token ids
NormalizeBare(v, kw) ==
    [f |-> [EntryFrame(kw) EXCEPT !.input_ids = v], err |-> NoError]

\* lines 162-179
Normalize(inputs, kw) ==
    CASE inputs.form = "seq" -> NormalizeSeq(inputs.seq, kw)
      [] inputs.form = "map" -> NormalizeMap(inputs.map, kw)
      [] OTHER               -> NormalizeBare(inputs.bare, kw)

\* CheckInputs with the test for token ids first: both given is accepted
CheckInputsIdsFirst(f) ==
    IF ~IsNone(f.input_ids)
    THEN [f |-> [f EXCEPT !.input_shape = shape_list(f.input_ids)], err |-> NoError]
    ELSE IF ~IsNone(f.inputs_embeds)
    THEN [f |-> [f EXCEPT !.input_shape = ButLast(shape_list(f.inputs_embeds))],
          err |-> NoError]
    ELSE [f |-> f,
          err |-> Error("ValueError",
                        "You have to specify either input_ids or inputs_embeds", 188)]

\* lines 181-188: the input shape, or the value error
CheckInputs(f) ==
    IF ~IsNone(f.input_ids) /\ ~IsNone(f.inputs_embeds)
    THEN [f |-> f,
          err |-> Error("ValueError",
                        "You cannot specify both input_ids and inputs_embeds at the same time",
                        182)]
    ELSE IF ~IsNone(f.input_ids)
    THEN [f |-> [f EXCEPT !.input_shape = shape_list(f.input_ids)], err |-> NoError]
    ELSE IF ~IsNone(f.inputs_embeds)
    THEN [f |-> [f EXCEPT !.input_shape = ButLast(shape_list(f.inputs_embeds))],
          err |-> NoError]
    ELSE [f |-> f,
          err |-> Error("ValueError",
                        "You have to specify either input_ids or inputs_embeds", 188)]

\* FillDefaults with the two fill values exchanged
FillDefaultsExchanged(f) ==
    [f EXCEPT
       !.attention_mask = IF IsNone(f.attention_mask)
                          THEN Fill(f.input_shape.data, 0) ELSE f.attention_mask,
       !.token_type_ids = IF IsNone(f.token_type_ids)
                          THEN Fill(f.input_shape.data, 1) ELSE f.token_type_ids]

\* lines 190-193
FillDefaults(f) ==
    [f EXCEPT
       !.attention_mask = IF IsNone(f.attention_mask)
                          THEN Fill(f.input_shape.data, 1) ELSE f.attention_mask,
       !.token_type_ids = IF IsNone(f.token_type_ids)
                          THEN Fill(f.input_shape.data, 0) ELSE f.token_type_ids]

\* get_extended_attention_mask without the `1.0 -`: attended positions masked
get_extended_attention_mask_unflipped(attention_mask, input_shape) ==
    LET m == IF IsNone(attention_mask) THEN Fill(input_shape.data, 1)
             ELSE attention_mask
    IN  Tensor(<<m.shape[1], 1, 1, m.shape[2]>>,
               [i \in 1..Len(m.data) |-> m.data[i] * MaskedValue])

\* lines 96-116: attention_mask[:, newaxis, newaxis, :], cast, (1.0 - m) * -10000.0
get_extended_attention_mask(attention_mask, input_shape) ==
    LET m == IF IsNone(attention_mask) THEN Fill(input_shape.data, 1)
             ELSE attention_mask
    IN  Tensor(<<m.shape[1], 1, 1, m.shape[2]>>,
               [i \in 1..Len(m.data) |-> (1 - m.data[i]) * MaskedValue])

\* get_head_mask that drops a supplied head mask instead of raising
get_head_mask_dropped(cfg, head_mask) ==
    [v |-> [kind |-> "list", shape |-> <<cfg.num_hidden_layers>>, data |-> <<>>,
            tags |-> [i \in 1..cfg.num_hidden_layers |-> "None"]],
     err |-> NoError]

\* lines 118-124: [None] * num_hidden_layers, or NotImplementedError
get_head_mask(cfg, head_mask) ==
    IF ~IsNone(head_mask)
    THEN [v |-> head_mask, err |-> Error("NotImplementedError", "", 120)]
    ELSE [v |-> [kind |-> "list", shape |-> <<cfg.num_hidden_layers>>, data |-> <<>>,
                 tags |-> [i \in 1..cfg.num_hidden_layers |-> "None"]],
          err |-> NoError]

----------------------------------------------------------------------------
(* Layers.  A layer's output depends on its weights, so it is a "sym"      *)
(* tensor: its shape, and the layers it went through.                      *)

\* tf.keras.layers.Dense(units): the last dimension becomes `units`
Dense(x, units, name) ==
    Sym(SubSeq(x.shape, 1, Len(x.shape) - 1) \o <<units>>, Append(x.tags, name))

\* an elementwise layer (activation, LayerNormalization): the shape is kept
Elementwise(x, name) == Sym(x.shape, Append(x.tags, name))

NotOne(d) == d # 1

\* tf.squeeze(x) with no axis: every dimension of size 1 is removed
tf_squeeze(x) == Sym(SelectSeq(x.shape, NotOne), Append(x.tags, "squeeze"))

\* self.embeddings([input_ids, position_ids, token_type_ids, inputs_embeds]):
\* one vector of the embedding width per token
Embeddings(cfg, input_ids, position_ids, token_type_ids, inputs_embeds) ==
    IF ~IsNone(input_ids)
    THEN Sym(input_ids.shape \o <<cfg.embedding_size>>, <<"embeddings">>)
    ELSE Sym(inputs_embeds.shape, <<"embeddings">>)

\* self.encoder(hidden_states, attention_mask, head_mask): the output tuple,
\* its first element the sequence output, of the shape of hidden_states
Encoder(hidden_states, attention_mask, head_mask) ==
    <<Sym(hidden_states.shape, Append(hidden_states.tags, "encoder"))>>

\* NeedsProjection comparing with the embedding width: never true
NeedsProjectionEmbeddingWidth(cfg, hidden_states) ==
    hidden_states.shape[Len(hidden_states.shape)] # cfg.embedding_size

\* line 200
NeedsProjection(cfg, hidden_states) ==
    hidden_states.shape[Len(hidden_states.shape)] # cfg.hidden_size

\* lines 198-205: what follows the checks
Forward(cfg, f) ==
    LET emb  == Embeddings(cfg, f.input_ids, f.position_ids, f.token_type_ids,
                           f.inputs_embeds)
        proj == NeedsProjection(cfg, emb)
        hid  == IF proj THEN Dense(emb, cfg.hidden_size, "embeddings_project") ELSE emb
        out  == Encoder(hid, f.extended_attention_mask, f.head_mask)
    IN  [frame   |-> [f EXCEPT !.hidden_states = out[1]],
         norm    |-> f,
         raised  |-> NoError,
         invoked |-> IF proj THEN <<"embeddings", "embeddings_project", "encoder">>
                     ELSE <<"embeddings", "encoder">>,
         ret     |-> out]

Raise(f, err) ==
    [frame |-> f, norm |-> f, raised |-> err, invoked |-> <<>>, ret |-> <<>>]

\* AfterChecks with the embeddings computed before the head mask is checked
AfterChecksEmbeddingsFirst(cfg, f0) ==
    LET f1 == FillDefaults(f0)
        f2 == [f1 EXCEPT !.extended_attention_mask =
                   get_extended_attention_mask(f1.attention_mask, f1.input_shape)]
        hm == get_head_mask(cfg, f2.head_mask)
    IN  IF hm.err # NoError
        THEN [Raise(f2, hm.err) EXCEPT !.invoked = <<"embeddings">>]
        ELSE Forward(cfg, [f2 EXCEPT !.head_mask = hm.v])

\* lines 190-205
AfterChecks(cfg, f0) ==
    LET f1 == FillDefaults(f0)
        f2 == [f1 EXCEPT !.extended_attention_mask =
                   get_extended_attention_mask(f1.attention_mask, f1.input_shape)]
        hm == get_head_mask(cfg, f2.head_mask)
    IN  IF hm.err # NoError THEN Raise(f2, hm.err)
        ELSE Forward(cfg, [f2 EXCEPT !.head_mask = hm.v])

\* TFElectraModel.call, lines 152-205
call(cfg, inputs, kw) ==
    LET n == Normalize(inputs, kw)
        c == CheckInputs(n.f)
        r == IF n.err # NoError THEN Raise(n.f, n.err)
             ELSE IF c.err # NoError THEN Raise(c.f, c.err)
             ELSE AfterChecks(cfg, c.f)
    IN  [r EXCEPT !.norm = n.f]

\* TFElectraDiscriminatorPredictions.forward, lines 67-72
DiscriminatorForward(cfg, discriminator_hidden_states, attention_mask) ==
    LET h1 == Dense(discriminator_hidden_states, cfg.hidden_size, "dense")
        h2 == Elementwise(h1, "hidden_act")
    IN  tf_squeeze(Dense(h2, 1, "dense_prediction"))

\* TFElectraGeneratorPredictions.forward, lines 82-87
GeneratorForward(cfg, generator_hidden_states) ==
    LET h1 == Dense(generator_hidden_states, cfg.embedding_size, "dense")
        h2 == Elementwise(h1, "gelu")
    IN  Elementwise(h2, "LayerNorm")

\* self.generator_lm_head(x, mode="linear"): the shared token-embedding matrix,
\* transposed, applied to x
LmHeadLinear(cfg, x) == Dense(x, cfg.vocab_size, "generator_lm_head")

\* TFElectraForMaskedLM.call, lines 244-253
MaskedLM(cfg, inputs, kw) ==
    LET g == call(cfg, inputs, kw)
    IN  IF g.raised # NoError THEN g
        ELSE LET scores == LmHeadLinear(cfg, GeneratorForward(cfg, g.ret[1]))
             IN  [g EXCEPT !.invoked = g.invoked \o
                                        <<"generator_predictions", "generator_lm_head">>,
                           !.ret = <<scores>> \o Tail(g.ret)]

\* TFElectraForPreTraining.call, lines 277-285
PreTraining(cfg, inputs, kw) ==
    LET d == call(cfg, inputs, kw)
    IN  IF d.raised # NoError THEN d
        ELSE LET logits == DiscriminatorForward(cfg, d.ret[1], kw.attention_mask)
             IN  [d EXCEPT !.invoked = Append(d.invoked, "discriminator_predictions"),
                           !.ret = <<logits>> \o Tail(d.ret)]

----------------------------------------------------------------------------
(* The values a caller passes.  The code never compares shapes, so the     *)
(* tensors of one call share one geometry `sh`; a positional (or mapping)  *)
(* value and the keyword value of the same field differ, so that which of  *)
(* the two a field took can be told.                                       *)

Shapes == {<<b, s>> : b \in 1..MaxBatch, s \in 1..MaxSeq}

FormShape == <<MaxBatch, MaxSeq>>

Configs ==
    [vocab_size : {VocabSize}, embedding_size : 1..MaxWidth,
     hidden_size : 1..MaxWidth, num_hidden_layers : 1..MaxLayers]

Classes == {"TFElectraModel", "TFElectraForMaskedLM", "TFElectraForPreTraining"}

\* the values of canonical field i given positionally or in a mapping
PosVals(i, sh, cfg) ==
    CASE i = 1 -> {None, Fill(sh, 0)}
      [] i = 2 -> {None, Tensor(sh, [j \in 1..Prod(sh) |-> IF j = 1 THEN 0 ELSE 1])}
      [] i = 3 -> {None, Fill(sh, 1)}
      [] i = 4 -> {None, Tensor(sh, [j \in 1..Prod(sh) |-> (j - 1) % sh[2]])}
      [] i = 5 -> {None, PyList(<<>>), Tensor(<<1>>, <<1>>)}
      [] i = 6 -> {None, Sym(sh \o <<cfg.embedding_size>>, <<"inputs_embeds">>)}
      [] OTHER -> {None}

\* the value of a keyword argument when it is given
KwVal(name, sh, cfg) ==
    CASE name = "attention_mask" ->
             Tensor(sh, [j \in 1..Prod(sh) |-> IF j = Prod(sh) THEN 0 ELSE 1])
      [] name = "token_type_ids" -> Tensor(sh, [j \in 1..Prod(sh) |-> j % 2])
      [] name = "position_ids"   -> Fill(sh, 0)
      [] name = "head_mask"      -> Tensor(<<1>>, <<0>>)
      [] OTHER -> Sym(sh \o <<cfg.embedding_size>>, <<"inputs_embeds_kw">>)

KwNames == {"attention_mask", "token_type_ids", "position_ids", "head_mask",
            "inputs_embeds"}

\* the keyword arguments with exactly those of P given
KwOf(P, sh, cfg) ==
    [name \in KwNames |-> IF name \in P THEN KwVal(name, sh, cfg) ELSE None]

KwProfiles == {{}, KwNames \ {"head_mask"}, KwNames}

\* the positional sequences of length k
RECURSIVE SeqsOf(_, _, _)
SeqsOf(k, sh, cfg) ==
    IF k = 0 THEN {<<>>}
    ELSE {Append(s, v) : s \in SeqsOf(k - 1, sh, cfg), v \in PosVals(k, sh, cfg)}

\* the values of key i of a mapping: absent, or present with a value (None is
\* a value of the keys the checks read)
MapVals(i, sh, cfg) ==
    {Absent} \cup
    (IF i \in {2, 3, 4} THEN PosVals(i, sh, cfg) \ {None}
     ELSE PosVals(i, sh, cfg) \ {PyList(<<>>)})

\* the mappings over the first k keys
RECURSIVE MapsOf(_, _, _)
MapsOf(k, sh, cfg) ==
    IF k = 0 THEN {<<>>}
    ELSE {Append(m, v) : m \in MapsOf(k - 1, sh, cfg), v \in MapVals(k, sh, cfg)}

FormArgs(cfg) ==
    {[inputs |-> SeqInputs(s), kw |-> KwOf(P, FormShape, cfg)] :
        s \in UNION {SeqsOf(k, FormShape, cfg) : k \in 0..NumKeys}, P \in KwProfiles}
    \cup
    {[inputs |-> MapInputs(m), kw |-> KwOf(P, FormShape, cfg)] :
        m \in MapsOf(NumKeys, FormShape, cfg), P \in KwProfiles}

GeomArgs(cfg) ==
    UNION {{[inputs |-> BareInputs(v), kw |-> KwOf(P, sh, cfg)] :
               v \in PosVals(1, sh, cfg), P \in SUBSET KwNames} : sh \in Shapes}

\* the calls made: every form on the base model; the task models, which hand
\* their arguments on unchanged, with a bare tensor (or None) and keywords
ArgSpace(cfg, kl) ==
    IF kl = "TFElectraModel" THEN FormArgs(cfg) \cup GeomArgs(cfg) ELSE GeomArgs(cfg)

NoArgs  == [inputs |-> BareInputs(None), kw |-> NoKw]
NoFrame == EntryFrame(NoKw)

----------------------------------------------------------------------------
(* The state machine *)

Init ==
    /\ config \in Configs
    /\ klass \in Classes
    /\ weights = {}
    /\ pc = "idle"
    /\ args = NoArgs
    /\ norm = NoFrame
    /\ frame = NoFrame
    /\ raised = NoError
    /\ invoked = <<>>
    /\ ret = <<>>

\* the caller binds the arguments of a call (the signature, lines 152-161)
Invoke ==
    /\ pc = "idle"
    /\ args' \in ArgSpace(config, klass)
    /\ pc' = "called"
    /\ UNCHANGED <<config, klass, weights, norm, frame, raised, invoked, ret>>

Range(s) == {s[i] : i \in 1..Len(s)}

\* the call runs to its return or its raise; a layer creates its weights
\* the first time it is invoked
Finish(r, built) ==
    /\ norm' = r.norm
    /\ frame' = r.frame
    /\ raised' = r.raised
    /\ invoked' = r.invoked
    /\ ret' = r.ret
    /\ weights' = weights \cup built \cup Range(r.invoked)
    /\ pc' = "returned"
    /\ UNCHANGED <<config, klass, args>>

\* TFElectraModel.call
ModelCall ==
    /\ pc = "called"
    /\ klass = "TFElectraModel"
    /\ Finish(call(config, args.inputs, args.kw), {})

\* TFElectraForMaskedLM: build (lines 227-231) on the first call, then call
MaskedLMCall ==
    /\ pc = "called"
    /\ klass = "TFElectraForMaskedLM"
    /\ Finish(MaskedLM(config, args.inputs, args.kw), {"generator_lm_head_bias"})

\* TFElectraForPreTraining.call
PreTrainingCall ==
    /\ pc = "called"
    /\ klass = "TFElectraForPreTraining"
    /\ Finish(PreTraining(config, args.inputs, args.kw), {})

\* the caller drops the result; the frame of the call is gone
Discard ==
    /\ pc = "returned"
    /\ pc' = "idle"
    /\ args' = NoArgs
    /\ norm' = NoFrame
    /\ frame' = NoFrame
    /\ raised' = NoError
    /\ invoked' = <<>>
    /\ ret' = <<>>
    /\ UNCHANGED <<config, klass, weights>>

Next == Invoke \/ ModelCall \/ MaskedLMCall \/ PreTrainingCall \/ Discard

Spec == Init /\ [][Next]_vars

----------------------------------------------------------------------------
(* get_extended_attention_mask on its own: every binary mask of every      *)
(* geometry, or no mask and an input shape.                                *)

BinaryMasks ==
    UNION {{Tensor(sh, d) : d \in [1..Prod(sh) -> {0, 1}]} : sh \in Shapes}

SmallConfig ==
    [vocab_size |-> VocabSize, embedding_size |-> 1, hidden_size |-> 1,
     num_hidden_layers |-> 1]

InitMask ==
    /\ config = SmallConfig
    /\ klass = "TFElectraModel"
    /\ weights = {}
    /\ pc = "called"
    /\ \E m \in BinaryMasks \cup {None}, sh \in Shapes :
          /\ args = [inputs |-> BareInputs(None),
                     kw |-> [NoKw EXCEPT !.attention_mask = m]]
          /\ norm = [NoFrame EXCEPT !.attention_mask = m, !.input_shape = PyList(sh)]
    /\ frame = norm
    /\ raised = NoError
    /\ invoked = <<>>
    /\ ret = <<>>

\* self.get_extended_attention_mask(attention_mask, input_shape)
ExtendedMaskCall ==
    /\ pc = "called"
    /\ frame' = [frame EXCEPT !.extended_attention_mask =
                    get_extended_attention_mask(frame.attention_mask, frame.input_shape)]
    /\ pc' = "returned"
    /\ UNCHANGED <<config, klass, weights, args, norm, raised, invoked, ret>>

SpecMask == InitMask /\ [][ExtendedMaskCall]_vars

----------------------------------------------------------------------------
(* Properties *)

Done == pc = "returned"

\* the call got past the normalization of its inputs (lines 162-179)
PastNormalization == Done /\ raised.line \notin 162..179

\* the call got past the checks of its inputs (lines 162-188)
PastChecks == Done /\ raised.line \notin 162..188

BothMsg    == "You cannot specify both input_ids and inputs_embeds at the same time"
NeitherMsg == "You have to specify either input_ids or inputs_embeds"
TooManyMsg == "Too many inputs."

\* len(inputs) of a positional sequence or a mapping
InputLen ==
    IF args.inputs.form = "seq" THEN Len(args.inputs.seq) ELSE MapLen(args.inputs.map)

\* canonical field i of a frame, in the order token ids, attention mask,
\* segment ids, position ids, head mask, precomputed embeddings
FieldOf(f, i) ==
    CASE i = 1 -> f.input_ids
      [] i = 2 -> f.attention_mask
      [] i = 3 -> f.token_type_ids
      [] i = 4 -> f.position_ids
      [] i = 5 -> f.head_mask
      [] OTHER -> f.inputs_embeds

\* the keyword argument of canonical field i (token ids have none)
KwOfField(i) ==
    CASE i = 1 -> None
      [] i = 2 -> args.kw.attention_mask
      [] i = 3 -> args.kw.token_type_ids
      [] i = 4 -> args.kw.position_ids
      [] i = 5 -> args.kw.head_mask
      [] OTHER -> args.kw.inputs_embeds

\* tensor t has shape sh and every entry v
AllOf(t, sh, v) ==
    /\ t.kind = "tensor"
    /\ t.shape = sh
    /\ Len(t.data) = Prod(sh)
    /\ \A j \in 1..Len(t.data) : t.data[j] = v

\* the row-major offset of the 0-based index idx in a tensor of shape sh
RECURSIVE Offset(_, _)
Offset(sh, idx) ==
    IF sh = <<>> THEN 0
    ELSE Offset(SubSeq(sh, 1, Len(sh) - 1), SubSeq(idx, 1, Len(idx) - 1)) * sh[Len(sh)]
         + idx[Len(idx)]

\* the entry of tensor t at the 0-based index idx
At(t, idx) == t.data[Offset(t.shape, idx) + 1]

\* the shape [batch, seq] of the input of a call past its checks
InShape ==
    IF ~IsNone(norm.input_ids) THEN norm.input_ids.shape
    ELSE SubSeq(norm.inputs_embeds.shape, 1, Len(norm.inputs_embeds.shape) - 1)

(* C1: a call whose inputs were normalized raises the "specify only one"   *)
(* value error when both token ids and precomputed embeddings are present, *)
(* the "must specify one" value error when neither is, and neither of the  *)
(* two when exactly one is.                                                *)
C1_OneOfIdsAndEmbeds ==
    PastNormalization =>
        LET ids == ~IsNone(norm.input_ids)
            emb == ~IsNone(norm.inputs_embeds)
        IN  /\ (ids /\ emb) => (raised.type = "ValueError" /\ raised.msg = BothMsg)
            /\ (~ids /\ ~emb) => (raised.type = "ValueError" /\ raised.msg = NeitherMsg)
            /\ (ids # emb) => raised.msg \notin {BothMsg, NeitherMsg}

C1_Witness ==
    /\ Done
    /\ args.inputs.form = "map"
    /\ ~IsNone(norm.input_ids)
    /\ ~IsNone(norm.inputs_embeds)
    /\ raised.msg = BothMsg

(* C2: a call with more than six positional or mapping entries ends in the *)
(* "too many inputs" error, which is a value error; a call with six or     *)
(* fewer never raises it.                                                  *)
C2_TooManyIsValueError ==
    (Done /\ args.inputs.form \in {"seq", "map"}) =>
        /\ (InputLen > NumFields) =>
               (raised.type = "ValueError" /\ raised.msg = TooManyMsg)
        /\ (InputLen <= NumFields) => raised.msg # TooManyMsg

(* C3: for a binary mask of shape [batch, seq] the bias has shape          *)
(* [batch, 1, 1, seq], and its entry at (b, 0, 0, t) is 0 where            *)
(* mask[b, t] = 1 and -10000 where mask[b, t] = 0.                         *)
C3_ExtendedMask ==
    (Done /\ ~IsNone(args.kw.attention_mask)) =>
        LET m == args.kw.attention_mask
            e == frame.extended_attention_mask
            B == m.shape[1]
            S == m.shape[2]
        IN  /\ e.kind = "tensor"
            /\ e.shape = <<B, 1, 1, S>>
            /\ Len(e.data) = B * S
            /\ \A b \in 0..(B - 1), t \in 0..(S - 1) :
                  At(e, <<b, 0, 0, t>>) = IF At(m, <<b, t>>) = 1 THEN 0 ELSE MaskedValue

C3_Witness ==
    /\ Done
    /\ args.kw.attention_mask = Tensor(<<2, 2>>, <<1, 0, 1, 1>>)
    /\ frame.extended_attention_mask.shape = <<2, 1, 1, 2>>
    /\ frame.extended_attention_mask.data = <<0, MaskedValue, 0, 0>>

NonEmptyHeadMask == ~IsNone(norm.head_mask) /\ norm.head_mask.shape # <<0>>

(* C4: a call given a non-empty head mask never returns, and raises        *)
(* NotImplementedError once its inputs pass the checks; with no head mask  *)
(* the Encoder receives a list of num_hidden_layers entries, each None.    *)
C4_HeadMask ==
    Done =>
        /\ NonEmptyHeadMask => raised # NoError
        /\ (PastChecks /\ NonEmptyHeadMask) => raised.type = "NotImplementedError"
        /\ (PastChecks /\ IsNone(norm.head_mask)) =>
              /\ raised = NoError
              /\ "encoder" \in Range(invoked)
              /\ frame.head_mask.kind = "list"
              /\ frame.head_mask.shape = <<config.num_hidden_layers>>
              /\ Len(frame.head_mask.tags) = config.num_hidden_layers
              /\ \A i \in 1..Len(frame.head_mask.tags) : frame.head_mask.tags[i] = "None"

C4_Witness ==
    /\ PastChecks
    /\ NonEmptyHeadMask
    /\ config.num_hidden_layers = MaxLayers
    /\ raised.type = "NotImplementedError"

(* C5: the logits the pretraining model returns have shape [batch, seq],   *)
(* whatever batch and seq are.                                             *)
C5_LogitsShape ==
    (Done /\ klass = "TFElectraForPreTraining" /\ raised = NoError) =>
        ret[1].shape = InShape

(* C6: the first output of the masked-LM model went through the Base       *)
(* Model, the Generator Head, the tied projection and then the bias, and   *)
(* has shape [batch, seq, vocab_size].                                     *)
C6_ProjectionPlusBias ==
    (Done /\ klass = "TFElectraForMaskedLM" /\ raised = NoError) =>
        LET t == ret[1].tags
        IN  /\ ret[1].shape = InShape \o <<config.vocab_size>>
            /\ Len(t) >= 2
            /\ t[Len(t) - 1] = "generator_lm_head"
            /\ t[Len(t)] = "generator_lm_head_bias"

(* C7: past the checks, the input shape is that of the token ids when they *)
(* are present and that of the precomputed embeddings without its last     *)
(* dimension otherwise; an absent attention mask is all ones of that       *)
(* shape, absent segment ids all zero, and supplied ones are kept.         *)
C7_ShapeAndDefaults ==
    PastChecks =>
        /\ frame.input_shape.data = InShape
        /\ IF IsNone(norm.attention_mask) THEN AllOf(frame.attention_mask, InShape, 1)
           ELSE frame.attention_mask = norm.attention_mask
        /\ IF IsNone(norm.token_type_ids) THEN AllOf(frame.token_type_ids, InShape, 0)
           ELSE frame.token_type_ids = norm.token_type_ids

C7_Witness ==
    /\ Done
    /\ raised = NoError
    /\ IsNone(norm.input_ids)
    /\ norm.inputs_embeds.shape = <<MaxBatch, 1, config.embedding_size>>
    /\ IsNone(norm.attention_mask)
    /\ ~IsNone(norm.token_type_ids)
    /\ frame.attention_mask.shape = <<MaxBatch, 1>>

(* C8: in a call that returns, the projection is applied exactly when the  *)
(* embedding width differs from the hidden width, and the sequence output  *)
(* has shape [batch, seq, hidden_size].                                    *)
C8_HiddenWidth ==
    (Done /\ raised = NoError) =>
        /\ ("embeddings_project" \in Range(invoked))
              <=> (config.embedding_size # config.hidden_size)
        /\ frame.hidden_states.shape = InShape \o <<config.hidden_size>>
        /\ frame.hidden_states.tags[Len(frame.hidden_states.tags)] = "encoder"

C8_Witness ==
    /\ Done
    /\ raised = NoError
    /\ ~IsNone(norm.input_ids)
    /\ config.embedding_size # config.hidden_size
    /\ "embeddings_project" \in Range(invoked)
    /\ frame.hidden_states.shape = <<1, MaxSeq, config.hidden_size>>

CallTimeError(e) ==
    \/ e.type = "ValueError" /\ e.msg \in {BothMsg, NeitherMsg}
    \/ e.msg = TooManyMsg
    \/ e.type = "NotImplementedError"

(* C9: a Base Model call that ends in a call-time error has invoked no     *)
(* layer and leaves the weights as they were before the call.              *)
C9_ErrorsLeaveWeights ==
    [][(pc = "called" /\ pc' = "returned" /\ klass = "TFElectraModel"
            /\ CallTimeError(raised'))
        => (invoked' = <<>> /\ ret' = <<>> /\ weights' = weights)]_vars

C9_Witness ==
    /\ Done
    /\ klass = "TFElectraModel"
    /\ raised.type = "NotImplementedError"
    /\ invoked = <<>>
    /\ "encoder" \in weights

\* the fields of a mapping and of a bare tensor, as C10 states them
MapAndBareFields ==
    /\ args.inputs.form = "map" =>
          /\ norm.input_ids = MapGet(args.inputs.map, 1, None)
          /\ \A i \in 2..NumFields :
                FieldOf(norm, i) = IF args.inputs.map[i].kind # "absent"
                                   THEN args.inputs.map[i] ELSE KwOfField(i)
    /\ args.inputs.form = "bare" =>
          /\ norm.input_ids = args.inputs.bare
          /\ \A i \in 2..NumFields : FieldOf(norm, i) = KwOfField(i)

\* the fields of a positional sequence, as C10 states them
SeqFields ==
    \A i \in 1..NumFields :
        FieldOf(norm, i) = IF i <= Len(args.inputs.seq) THEN args.inputs.seq[i]
                           ELSE KwOfField(i)

====
